---------------------------- MODULE Spec2Model ----------------------------
(***************************************************************************)
(* Model of the Telegram AI worker of AlgoDenis (src/telegram-ai-worker):  *)
(* the channel listener, ask_with_sources, the verdict decision            *)
(* (calcPresentGoodRate) and the dispatcher (send_text_with_button).       *)
(*                                                                         *)
(* The specifications share the variables:                                 *)
(*   Spec        the pipeline of one channel post after another            *)
(*   SpecDecide  calcPresentGoodRate applied to drawn verdicts/settings    *)
(*   SpecRetune  evaluations interleaved with edits of the settings file   *)
(*   SpecAsk     one call of ask_with_sources over a drawn source list     *)
(***************************************************************************)
EXTENDS Integers, Sequences, FiniteSets, TLC

VARIABLES
    \* ---- external configuration (../db/settings.json) ----
    settings,          \* the file's present content
    settingsAtStart,   \* the file's content when the process started
    \* ---- pipeline of the post in flight (listener, main.process_urls) ----
    pc,                \* position of the pipeline
    post,              \* the channel post being handled
    ai_json,           \* object parsed out of the answer
    flag,              \* "None" | "True" | "False"
    text,              \* the composed text handed to the messenger
    primaryOut,        \* send_message calls made to TARGET_GROUP_ID for this post
    secondaryOut,      \* send_message calls made to UsersGroupChat for this post
    lastClick,         \* latest control click the transport holds for the bot
    UsersGroupChat,    \* env UsersGroupChat (0 = not configured)
    \* ---- evaluations of calcPresentGoodRate (SpecDecide, SpecRetune) ----
    evalLog,
    \* ---- one call of ask_with_sources (SpecAsk) ----
    askPc, sources, idx, content_items, temps_to_cleanup, tmpFiles,
    askEnv, request, aborted,
    fetched,           \* per source processed, the GET requests made for it
    \* ---- one call of a helper function (SpecUrls and the like) ----
    call,              \* the function called and its argument
    ret,               \* <<>> while the call runs, then <<value returned>>
    \* ---- the process: main.run, main.amain and the poll thread (SpecRun) ----
    runPc,             \* position of the main thread
    pollPc,            \* position of the poll thread of TelegramListener.start
    dotenv,            \* BOT_TOKEN, SOURCE_CHANNEL_ID, TARGET_GROUP_ID as set
    messenger,         \* whether the global messenger has been created
    listener,          \* whether a TelegramListener has been created
    startFailures,     \* times asyncio.run(amain()) has raised
    pollFailures,      \* times the poll loop has raised
    handled            \* channel posts handed to on_channel_post

pipeVars == <<pc, post, ai_json, flag, text, primaryOut, secondaryOut,
              lastClick, UsersGroupChat>>
cfgVars  == <<settings, settingsAtStart>>
askVars  == <<askPc, sources, idx, content_items, temps_to_cleanup, tmpFiles,
              askEnv, request, aborted, fetched>>
fnVars   == <<call, ret>>
runVars  == <<runPc, pollPc, dotenv, messenger, listener, startFailures,
              pollFailures, handled>>
vars     == <<cfgVars, pipeVars, evalLog, askVars, fnVars, runVars>>

---------------------------------------------------------------------------
(* JSON values as the decision reads them.                                 *)

\* a key that is absent (dict.get gives None) or a JSON null
None == [t |-> "none", v |-> 0]
\* a JSON number
Num(n) == [t |-> "num", v |-> n]
\* a string float() parses, such as "60"
NumStr(n) == [t |-> "numstr", v |-> n]
\* a string float() rejects, such as "high"
NaS == [t |-> "str", v |-> 0]

\* float(x) at main.py:169-171: TypeError on None, ValueError on a bad string
floatOk(x) == x.t \in {"num", "numstr"}

\* a settings file: unreadable (open or json.load raises), or an object
SettingsFile(a, b, c, d) ==
    [readable |-> TRUE, min1 |-> a, max1 |-> b, min2 |-> c, max2 |-> d]
Unreadable ==
    [readable |-> FALSE, min1 |-> None, max1 |-> None, min2 |-> None, max2 |-> None]

\* the object parsed out of the answer: kind "none" is no object at all,
\* "dict" a JSON object, "list" a non-empty JSON array (truthy, has no .get)
Verdict(u, d, s) ==
    [kind |-> "dict", prob_up |-> u, prob_down |-> d, prob_stable |-> s]
NoVerdict ==
    [kind |-> "none", prob_up |-> None, prob_down |-> None, prob_stable |-> None]
EmptyDict ==
    [kind |-> "empty", prob_up |-> None, prob_down |-> None, prob_stable |-> None]
ListVerdict ==
    [kind |-> "list", prob_up |-> None, prob_down |-> None, prob_stable |-> None]

---------------------------------------------------------------------------
(* DecisionEngine: main.calcPresentGoodRate                                *)

\* (mutant) the file is loaded once, when the module is imported
ReadSettingsFile_cached(file, atStart) == atStart

\* open("../db/settings.json") + json.load on every call
ReadSettingsFile(file, atStart) == file

\* the two interval conditions, on parsed numbers
cond1(f, up, down) == f.min1.v <= (up - down) /\ (up - down) <= f.max1.v
cond2(f, up, stable) == f.min2.v <= (up - stable) /\ (up - stable) <= f.max2.v

\* (mutant) only the first interval is tested
calcPresentGoodRate_cond1Only(aj, file) ==
    IF aj.kind \in {"none", "empty"} THEN "False"
    ELSE IF ~file.readable THEN "False"
    ELSE IF aj.kind # "dict" THEN "Raise"
    ELSE IF ~(floatOk(aj.prob_up) /\ floatOk(aj.prob_down) /\ floatOk(aj.prob_stable))
         THEN "False"
    ELSE IF None \in {file.min1, file.max1, file.min2, file.max2} THEN "False"
    ELSE IF cond1(file, aj.prob_up.v, aj.prob_down.v) THEN "True" ELSE "False"

\* (mutant) a probability that is missing or unparseable counts as 0
calcPresentGoodRate_missingAsZero(aj, file) ==
    IF aj.kind \in {"none", "empty"} THEN "False"
    ELSE IF ~file.readable THEN "False"
    ELSE IF aj.kind # "dict" THEN "Raise"
    ELSE IF None \in {file.min1, file.max1, file.min2, file.max2} THEN "False"
    ELSE IF cond1(file, aj.prob_up.v, aj.prob_down.v)
            /\ cond2(file, aj.prob_up.v, aj.prob_stable.v)
         THEN "True" ELSE "False"

\* returns "True" / "False", or "Raise" when an exception leaves the function
calcPresentGoodRate(aj, file) ==
    IF aj.kind \in {"none", "empty"} THEN "False"
    ELSE IF ~file.readable THEN "False"
    ELSE IF aj.kind # "dict" THEN "Raise"
    ELSE IF ~(floatOk(aj.prob_up) /\ floatOk(aj.prob_down) /\ floatOk(aj.prob_stable))
         THEN "False"
    ELSE IF None \in {file.min1, file.max1, file.min2, file.max2} THEN "False"
    ELSE IF cond1(file, aj.prob_up.v, aj.prob_down.v)
            /\ cond2(file, aj.prob_up.v, aj.prob_stable.v)
         THEN "True" ELSE "False"

\* process_urls: flag stays None with no verdict or when the decision raises
flagOf(aj, file) ==
    IF aj.kind = "none" THEN "None"
    ELSE IF calcPresentGoodRate(aj, file) = "Raise" THEN "None"
    ELSE calcPresentGoodRate(aj, file)

---------------------------------------------------------------------------
(* Values the variables of a specification hold while it is not the one    *)
(* being run.                                                              *)

NoText == [kind |-> "none", fields |-> FALSE, plan |-> FALSE]
NoPost == [chat |-> "none", nUrls |-> 0, inline |-> "none"]
ExampleSettings == SettingsFile(Num(10), Num(40), Num(5), Num(30))

pipeIdle ==
    /\ pc = "idle" /\ post = NoPost /\ ai_json = NoVerdict /\ flag = "None"
    /\ text = NoText /\ primaryOut = <<>> /\ secondaryOut = <<>>
    /\ lastClick = "none" /\ UsersGroupChat = 0
NoCall == [fn |-> "none", arg |-> <<>>]
runIdle ==
    /\ runPc = "off" /\ pollPc = "off"
    /\ dotenv = [BOT_TOKEN |-> "unset", SOURCE_CHANNEL_ID |-> "unset",
                 TARGET_GROUP_ID |-> "unset"]
    /\ messenger = FALSE /\ listener = FALSE
    /\ startFailures = 0 /\ pollFailures = 0 /\ handled = 0
fnIdle == call = NoCall /\ ret = <<>>
askIdle ==
    /\ askPc = "off" /\ sources = <<>> /\ idx = 0 /\ content_items = <<>>
    /\ temps_to_cleanup = <<>> /\ tmpFiles = {} /\ request = <<>>
    /\ askEnv = [PROMPT |-> FALSE, QUESTION |-> FALSE, pdfkit |-> FALSE, weasyprint |-> FALSE]
    /\ aborted = "no" /\ fetched = <<>>

---------------------------------------------------------------------------
(* SpecDecide: calcPresentGoodRate on every verdict and settings file of   *)
(* the drawn sets.  SpecRetune: evaluations between edits of the file.     *)

\* numbers a probability or a threshold takes in these specifications
ProbNums == {10, 30, 40, 60}
ThrNums == {5, 10, 30, 40}
ProbVals == {None, NaS} \cup {Num(n) : n \in ProbNums} \cup {NumStr(60)}
ThrVals == {None} \cup {Num(n) : n \in ThrNums}

AllVerdicts ==
    {Verdict(u, d, s) : u \in ProbVals, d \in ProbVals, s \in ProbVals}
        \cup {EmptyDict, ListVerdict, NoVerdict}
AllSettings ==
    {SettingsFile(a, b, c, d) : a \in ThrVals, b \in ThrVals, c \in ThrVals, d \in ThrVals}
        \cup {Unreadable}

\* the settings files and verdicts of SpecRetune and of the pipeline
FewSettings ==
    { ExampleSettings, Unreadable,
      SettingsFile(Num(10), Num(40), Num(5), None),
      SettingsFile(Num(10), Num(40), Num(5), Num(60)) }
FewVerdicts ==
    {Verdict(u, d, s) : u \in {Num(60), None, NaS}, d \in {Num(30), None, NaS},
                        s \in {Num(40), Num(10), None, NaS}}
        \cup {ListVerdict, NoVerdict}
RetuneVerdicts ==
    {Verdict(Num(60), Num(30), Num(40)), Verdict(Num(60), Num(30), Num(10)),
     Verdict(Num(60), None, Num(40))}

MaxEvals == 2

\* one evaluation made by process_urls (main.py:242-248), logged with the
\* content the file had at that moment
Evaluate(aj) ==
    /\ Len(evalLog) < MaxEvals
    /\ evalLog' = Append(evalLog,
           [aj |-> aj, file |-> settings,
            out |-> flagOf(aj, ReadSettingsFile(settings, settingsAtStart))])
    /\ UNCHANGED <<cfgVars, pipeVars, askVars, fnVars, runVars>>

\* an operator rewrites ../db/settings.json while the process runs
EditSettings(f) ==
    /\ f # settings
    /\ settings' = f
    /\ UNCHANGED <<settingsAtStart, pipeVars, evalLog, askVars, fnVars, runVars>>

InitDecide ==
    /\ settings \in AllSettings /\ settingsAtStart = settings /\ runIdle
    /\ evalLog = <<>> /\ pipeIdle /\ askIdle /\ fnIdle
NextDecide == \E aj \in AllVerdicts : Len(evalLog) < 1 /\ Evaluate(aj)
SpecDecide == InitDecide /\ [][NextDecide]_vars

InitRetune ==
    /\ settings \in FewSettings /\ settingsAtStart = settings /\ runIdle
    /\ evalLog = <<>> /\ pipeIdle /\ askIdle /\ fnIdle
NextRetune ==
    \/ \E aj \in RetuneVerdicts : Evaluate(aj)
    \/ \E f \in FewSettings : EditSettings(f)
SpecRetune == InitRetune /\ [][NextRetune]_vars

---------------------------------------------------------------------------
(* The pipeline of a channel post: TelegramListener.on_channel_post hands  *)
(* the post to main.process_urls, which asks the AI, parses the verdict,   *)
(* decides, composes the text and calls                                    *)
(* TelegramMessenger.send_text_with_button.  pc is the await the coroutine *)
(* is suspended at.  The coroutines of different posts share nothing but   *)
(* the settings file and the environment, so one post is followed at a     *)
(* time; the file may be edited between any two steps.                     *)

MaxUrls == 2
Controls == {"accept", "reject", "cancel"}
GroupId == 1

\* the reply_markup of the send_message call to the target group: none
PrimaryMarkup == {}
\* the reply_markup of the send_message call to UsersGroupChat: none
SecondaryMarkup == {}

\* orderList(inline_json.get("Last Rate")) is a plan iff the post carried an
\* inline object with a parseable Last Rate
hasOrderRate(p) == p.inline = "rate"

\* a new post arrives; posts of other chats and posts without URL are only
\* logged, the others are handed to process_urls with urls[1:]
OnChannelPost(chat, n, inl) ==
    /\ pc \in {"idle", "done"}
    /\ post' = [chat |-> chat, nUrls |-> n, inline |-> inl]
    /\ pc' = IF chat = "source" /\ n > 0 THEN "scheduled" ELSE "done"
    /\ ai_json' = NoVerdict /\ flag' = "None" /\ text' = NoText
    /\ primaryOut' = <<>> /\ secondaryOut' = <<>> /\ lastClick' = "none"
    /\ UNCHANGED <<cfgVars, UsersGroupChat, evalLog, askVars, fnVars, runVars>>

\* (mutant) process_urls asks the AI whatever the list holds
ProcessUrlsBegin_alwaysAsks ==
    /\ pc = "scheduled"
    /\ pc' = "asking" /\ text' = text
    /\ UNCHANGED <<cfgVars, post, ai_json, flag, primaryOut, secondaryOut,
                   lastClick, UsersGroupChat, evalLog, askVars, fnVars, runVars>>

\* process_urls starts: with no URL left it composes the error text and
\* calls the messenger, otherwise it starts ask_with_sources in a thread
ProcessUrlsBegin ==
    /\ pc = "scheduled"
    /\ IF post.nUrls - 1 = 0
         THEN /\ pc' = "primary"
              /\ text' = [kind |-> "error", fields |-> FALSE, plan |-> FALSE]
         ELSE /\ pc' = "asking"
              /\ text' = text
    /\ UNCHANGED <<cfgVars, post, ai_json, flag, primaryOut, secondaryOut,
                   lastClick, UsersGroupChat, evalLog, askVars, fnVars, runVars>>

\* (mutant) an exception of ask_with_sources leaves process_urls: nothing
\* is composed for the messenger and nothing is sent
AskFinished_failureAborts(ok, aj, fields) ==
    /\ pc = "asking"
    /\ ok \/ (~fields /\ aj \in {NoVerdict, Verdict(None, None, None)})
    /\ ai_json' = aj
    /\ flag' = flagOf(aj, ReadSettingsFile(settings, settingsAtStart))
    /\ text' = [kind |-> IF ok THEN "summary" ELSE "ai_failed",
                fields |-> fields, plan |-> hasOrderRate(post)]
    /\ pc' = IF ok THEN "primary" ELSE "done"
    /\ UNCHANGED <<cfgVars, post, primaryOut, secondaryOut, lastClick,
                   UsersGroupChat, evalLog, askVars, fnVars, runVars>>

\* ask_with_sources returned (ok) or raised; the answer is parsed, the flag
\* computed, the text composed and the messenger called
AskFinished(ok, aj, fields) ==
    /\ pc = "asking"
    /\ ok \/ (~fields /\ aj \in {NoVerdict, Verdict(None, None, None)})
    /\ ai_json' = aj
    /\ flag' = flagOf(aj, ReadSettingsFile(settings, settingsAtStart))
    /\ text' = [kind |-> IF ok THEN "summary" ELSE "ai_failed",
                fields |-> fields, plan |-> hasOrderRate(post)]
    /\ pc' = "primary"
    /\ UNCHANGED <<cfgVars, post, primaryOut, secondaryOut, lastClick,
                   UsersGroupChat, evalLog, askVars, fnVars, runVars>>

\* (mutant) any computed flag, True or False, opens the secondary post
SecondaryWanted_anyFlag(fl, users) == fl # "None" /\ users # 0

\* bool(flag) and UsersGroupChat
SecondaryWanted(fl, users) == fl = "True" /\ users # 0

\* extra_lines is empty: no field found in the text and no order plan
ExtraLinesEmpty(t) == ~t.fields /\ ~t.plan

\* (mutant) an actionable signal goes to the secondary destination only
PrimarySendDone_skippedWhenActionable(ok) ==
    /\ pc = "primary"
    /\ primaryOut' = IF flag = "True" THEN primaryOut
                     ELSE Append(primaryOut,
                            [text |-> text, buttons |-> {}, delivered |-> ok])
    /\ pc' = IF SecondaryWanted(flag, UsersGroupChat) /\ ~ExtraLinesEmpty(text)
               THEN "secondary" ELSE "done"
    /\ UNCHANGED <<cfgVars, post, ai_json, flag, text, secondaryOut, lastClick,
                   UsersGroupChat, evalLog, askVars, fnVars, runVars>>

\* (mutant) an exception of the primary send leaves send_text_with_button
PrimarySendDone_failureReturns(ok) ==
    /\ pc = "primary"
    /\ primaryOut' = Append(primaryOut,
           [text |-> text, buttons |-> {}, delivered |-> ok])
    /\ pc' = IF ok /\ SecondaryWanted(flag, UsersGroupChat) /\ ~ExtraLinesEmpty(text)
               THEN "secondary" ELSE "done"
    /\ UNCHANGED <<cfgVars, post, ai_json, flag, text, secondaryOut, lastClick,
                   UsersGroupChat, evalLog, askVars, fnVars, runVars>>

\* the send_message to the target group returned or raised (logged); then
\* the secondary logic runs up to its own send_message
PrimarySendDone(ok) ==
    /\ pc = "primary"
    /\ primaryOut' = Append(primaryOut,
           [text |-> text, buttons |-> PrimaryMarkup, delivered |-> ok])
    /\ pc' = IF SecondaryWanted(flag, UsersGroupChat) /\ ~ExtraLinesEmpty(text)
               THEN "secondary" ELSE "done"
    /\ UNCHANGED <<cfgVars, post, ai_json, flag, text, secondaryOut, lastClick,
                   UsersGroupChat, evalLog, askVars, fnVars, runVars>>

\* the send_message to UsersGroupChat returned or raised (logged)
SecondarySendDone(ok) ==
    /\ pc = "secondary"
    /\ secondaryOut' = Append(secondaryOut,
           [text |-> [kind |-> "condensed", fields |-> text.fields, plan |-> text.plan],
            buttons |-> SecondaryMarkup, delivered |-> ok])
    /\ pc' = "done"
    /\ UNCHANGED <<cfgVars, post, ai_json, flag, text, primaryOut, lastClick,
                   UsersGroupChat, evalLog, askVars, fnVars, runVars>>

\* an operator answers the posted message with a control click: the
\* application registers one handler, for channel posts, and polls with
\* allowed_updates=["channel_post"], so the click reaches no code
ControlClicked(c) ==
    /\ pc = "done"
    /\ \E i \in DOMAIN primaryOut : primaryOut[i].delivered
    /\ lastClick # c
    /\ lastClick' = c
    /\ UNCHANGED <<cfgVars, pc, post, ai_json, flag, text, primaryOut,
                   secondaryOut, UsersGroupChat, evalLog, askVars, fnVars, runVars>>

Init ==
    /\ settings \in FewSettings /\ settingsAtStart = settings /\ runIdle
    /\ pc = "idle" /\ post = NoPost /\ ai_json = NoVerdict /\ flag = "None"
    /\ text = NoText /\ primaryOut = <<>> /\ secondaryOut = <<>>
    /\ lastClick = "none" /\ UsersGroupChat \in {0, GroupId}
    /\ evalLog = <<>> /\ askIdle /\ fnIdle

Next ==
    \/ \E chat \in {"source", "other"}, n \in 0..MaxUrls,
          inl \in {"none", "norate", "rate"} : OnChannelPost(chat, n, inl)
    \/ ProcessUrlsBegin
    \/ \E ok \in BOOLEAN, aj \in FewVerdicts, fields \in BOOLEAN :
          AskFinished(ok, aj, fields)
    \/ \E ok \in BOOLEAN : PrimarySendDone(ok)
    \/ \E ok \in BOOLEAN : SecondarySendDone(ok)
    \/ \E c \in Controls : ControlClicked(c)
    \/ \E f \in FewSettings : EditSettings(f)

Spec == Init /\ [][Next]_vars

---------------------------------------------------------------------------
(* SpecAsk: one call of ai.ask_with_sources.  A source is a URL or a local *)
(* path with a suffix; what the network, the converters and the file       *)
(* system answer is drawn at each step.  A temporary file is named by the  *)
(* source it was made for and its role.                                    *)

MaxSources == 2
Suffixes == {"pdf", "html", "other"}
SourceKinds == [url : BOOLEAN, suffix : Suffixes]

\* what the environment answers while one source is processed: the HEAD and
\* GET content types, whether download, upload, pdfkit, WeasyPrint, the
\* existence test and the read succeed (only a URL is probed and downloaded,
\* only a local path is tested and read, only an installed converter runs)
Outcomes(src, env) ==
    [ct_head : IF src.url THEN Suffixes ELSE {"other"},
     ct_get : IF src.url THEN Suffixes ELSE {"other"},
     dl : IF src.url THEN BOOLEAN ELSE {TRUE},
     up : BOOLEAN,
     pk : IF env.pdfkit THEN BOOLEAN ELSE {FALSE},
     wz : IF env.weasyprint THEN BOOLEAN ELSE {FALSE},
     exists : IF src.url THEN {TRUE} ELSE BOOLEAN,
     rd : IF src.url THEN {TRUE} ELSE BOOLEAN]

\* result of processing one source: the content items added (item "none"
\* adds none), the paths appended to temps_to_cleanup, the temporary files
\* left on disk, whether an exception leaves the loop, and the GET requests
\* made
Res(item, temps, files, raised) ==
    [items |-> IF item = "none" THEN <<>> ELSE <<item>>, temps |-> temps,
     files |-> files, raised |-> raised, gets |-> 0]
\* the same after one _download_bytes
Downloaded(res) == [res EXCEPT !.gets = @ + 1]
\* one part of the loop body run after another
Then(res1, res2) ==
    [items |-> res1.items \o res2.items, temps |-> res1.temps \o res2.temps,
     files |-> res1.files \cup res2.files, raised |-> res1.raised \/ res2.raised,
     gets |-> res1.gets + res2.gets]
Nothing == Res("none", <<>>, {}, FALSE)

\* _convert_html_str_to_pdf_file: pdfkit first, WeasyPrint second; path is
\* <<p>> for the returned PDF or <<>> for None, files are those it leaves
_convert_html_str_to_pdf_file(i, env, o) ==
    LET viaPk == env.pdfkit /\ o.pk
        pkFiles == IF ~env.pdfkit THEN {}
                   ELSE IF o.pk THEN {<<i, "pdfkit_out">>}
                   ELSE {<<i, "pdfkit_out">>, <<i, "pdfkit_html">>}
        wzTried == ~viaPk /\ env.weasyprint
        wzFiles == IF wzTried THEN {<<i, "weasy_out">>} ELSE {}
    IN  [path |-> IF viaPk THEN << <<i, "pdfkit_out">> >>
                  ELSE IF wzTried /\ o.wz THEN << <<i, "weasy_out">> >>
                  ELSE <<>>,
         files |-> pkFiles \cup wzFiles]

\* save the downloaded bytes as a temporary PDF and upload it; an upload
\* that raises leaves the path on the cleanup list
UploadDownloadedPdf(i, o, raises) ==
    Res(IF o.up THEN "input_file" ELSE "none",
        << <<i, "download">> >>, {<<i, "download">>}, raises /\ ~o.up)

\* convert markup and upload the PDF, or fall back to the cleaned text
ConvertAndUpload(i, env, o, raises) ==
    LET c == _convert_html_str_to_pdf_file(i, env, o)
    IN  IF c.path # <<>>
          THEN Res(IF o.up THEN "input_file" ELSE "none", c.path, c.files,
                   raises /\ ~o.up)
          ELSE Res("input_text", <<>>, c.files, FALSE)

\* the GET path (neither suffix nor HEAD type says PDF or HTML): res is what
\* it did, continued whether it ended in a continue (each branch appends its
\* item and continues), else an exception was caught and the loop body goes
\* on below it
GetPath(i, env, o) ==
    IF ~o.dl THEN [res |-> Downloaded(Nothing), continued |-> FALSE]
    ELSE LET done == CASE o.ct_get = "pdf" -> UploadDownloadedPdf(i, o, FALSE)
                       [] o.ct_get = "html" -> ConvertAndUpload(i, env, o, FALSE)
                       [] OTHER -> Res("input_text", <<>>, {}, FALSE)
         IN  [res |-> Downloaded(done), continued |-> done.items # <<>>]

\* the HEAD-informed path: a PDF is downloaded and uploaded, markup is
\* downloaded and converted, anything else is left alone
HeadPath(i, env, o, is_pdf, is_html) ==
    IF ~(is_pdf \/ is_html) THEN Nothing
    ELSE IF ~o.dl THEN Downloaded(Nothing)
    ELSE IF is_pdf THEN Downloaded(UploadDownloadedPdf(i, o, FALSE))
    ELSE Downloaded(ConvertAndUpload(i, env, o, FALSE))

\* (mutant) after a failed GET path the HEAD-informed path fetches the
\* source as a PDF
UrlSource_refetchAfterGetFailure(i, src, env, o) ==
    LET is_pdf == src.suffix = "pdf" \/ o.ct_head = "pdf"
        is_html == src.suffix = "html" \/ o.ct_head = "html"
        g == GetPath(i, env, o)
    IN  IF is_pdf \/ is_html THEN HeadPath(i, env, o, is_pdf, is_html)
        ELSE IF g.continued THEN g.res
        ELSE Then(g.res, HeadPath(i, env, o, TRUE, FALSE))

\* a URL: HEAD for the content type, then the GET path when neither suffix
\* nor type says PDF or HTML, and the HEAD-informed path unless the GET path
\* ended in a continue; every exception is caught and logged
UrlSource(i, src, env, o) ==
    LET is_pdf == src.suffix = "pdf" \/ o.ct_head = "pdf"
        is_html == src.suffix = "html" \/ o.ct_head = "html"
        g == GetPath(i, env, o)
    IN  IF is_pdf \/ is_html THEN HeadPath(i, env, o, is_pdf, is_html)
        ELSE IF g.continued THEN g.res
        ELSE Then(g.res, HeadPath(i, env, o, is_pdf, is_html))

\* a local path: a missing file, a failed upload or a failed read raises
LocalSource(i, src, env, o) ==
    IF ~o.exists THEN Res("none", <<>>, {}, TRUE)
    ELSE CASE src.suffix = "pdf" ->
                Res(IF o.up THEN "input_file" ELSE "none", <<>>, {}, ~o.up)
           [] src.suffix = "html" ->
                IF o.rd THEN ConvertAndUpload(i, env, o, TRUE)
                ELSE Res("none", <<>>, {}, TRUE)
           [] OTHER ->
                Res(IF o.rd THEN "input_text" ELSE "none", <<>>, {}, ~o.rd)

ProcessSource(i, src, env, o) ==
    IF src.url THEN UrlSource(i, src, env, o) ELSE LocalSource(i, src, env, o)

Range(seq) == {seq[k] : k \in DOMAIN seq}

\* the finally block: os.remove of every path of temps_to_cleanup
Cleanup(files, temps) == files \ Range(temps)

\* entry: PROMPT and QUESTION are taken from the environment; without a
\* prompt the call raises before the loop
AskBegin ==
    /\ askPc = "call"
    /\ IF ~askEnv.PROMPT
         THEN askPc' = "raised" /\ aborted' = "config" /\ content_items' = <<>>
         ELSE /\ askPc' = "loop" /\ aborted' = "no"
              /\ content_items' = IF askEnv.QUESTION
                                    THEN <<[type |-> "input_text", src |-> 0]>>
                                    ELSE <<>>
    /\ UNCHANGED <<cfgVars, pipeVars, evalLog, sources, idx, temps_to_cleanup,
                   tmpFiles, askEnv, request, fetched, fnVars, runVars>>

\* one turn of the loop over the sources, ending as result r
AskSource(r) ==
    /\ askPc = "loop" /\ idx < Len(sources)
    /\ LET i == idx + 1
           temps == temps_to_cleanup \o r.temps
       IN  /\ idx' = i
           /\ content_items' = content_items \o
                  [k \in DOMAIN r.items |-> [type |-> r.items[k], src |-> i]]
           /\ fetched' = Append(fetched, r.gets)
           /\ temps_to_cleanup' = temps
           /\ IF r.raised
                THEN /\ askPc' = "raised" /\ aborted' = "source"
                     /\ tmpFiles' = Cleanup(tmpFiles \cup r.files, temps)
                ELSE /\ askPc' = "loop" /\ aborted' = aborted
                     /\ tmpFiles' = tmpFiles \cup r.files
    /\ UNCHANGED <<cfgVars, pipeVars, evalLog, sources, askEnv, request, fnVars, runVars>>

\* after the loop: no content raises, else the completion call is made and
\* returns or raises; the finally block runs on each way out
AskComplete(ok) ==
    /\ askPc = "loop" /\ idx = Len(sources)
    /\ IF content_items = <<>>
         THEN askPc' = "raised" /\ aborted' = "content" /\ request' = request
         ELSE /\ request' = content_items
              /\ askPc' = IF ok THEN "returned" ELSE "raised"
              /\ aborted' = IF ok THEN "no" ELSE "completion"
    /\ tmpFiles' = Cleanup(tmpFiles, temps_to_cleanup)
    /\ UNCHANGED <<cfgVars, pipeVars, evalLog, sources, idx, content_items,
                   temps_to_cleanup, askEnv, fetched, fnVars, runVars>>

InitAsk ==
    /\ settings = ExampleSettings /\ settingsAtStart = settings /\ runIdle
    /\ pipeIdle /\ evalLog = <<>> /\ fnIdle
    /\ askPc = "call" /\ idx = 0 /\ content_items = <<>>
    /\ temps_to_cleanup = <<>> /\ tmpFiles = {} /\ request = <<>> /\ aborted = "no"
    /\ fetched = <<>>
    /\ sources \in UNION {[1..n -> SourceKinds] : n \in 0..MaxSources}
    /\ askEnv \in [PROMPT : BOOLEAN, QUESTION : BOOLEAN,
                   pdfkit : BOOLEAN, weasyprint : BOOLEAN]

NextAsk ==
    \/ AskBegin
    \/ \E r \in IF askPc = "loop" /\ idx < Len(sources)
                  THEN {ProcessSource(idx + 1, sources[idx + 1], askEnv, o) :
                           o \in Outcomes(sources[idx + 1], askEnv)}
                  ELSE {} : AskSource(r)
    \/ \E ok \in BOOLEAN : AskComplete(ok)

SpecAsk == InitAsk /\ [][NextAsk]_vars

---------------------------------------------------------------------------
(* SpecStages: the pipeline of one post with its call of ask_with_sources  *)
(* unfolded: process_urls awaits asyncio.to_thread(ask_with_sources, None, *)
(* None, urls), so the steps of SpecAsk run while pc = "asking".           *)

MaxStageUrls == 3
StageVerdicts == {Verdict(Num(60), Num(30), Num(40)), NoVerdict}

\* asyncio.to_thread starts ask_with_sources on the URLs handed over
AskInThread(srcs) ==
    /\ pc = "asking" /\ askPc = "off"
    /\ Len(srcs) = post.nUrls - 1
    /\ sources' = srcs /\ askPc' = "call"
    /\ UNCHANGED <<cfgVars, pipeVars, evalLog, idx, content_items,
                   temps_to_cleanup, tmpFiles, askEnv, request, aborted,
                   fetched, fnVars, runVars>>

\* (mutant) the coroutine goes on without awaiting the thread
AskJoined_notAwaited(aj, fields) == AskFinished(TRUE, aj, fields)

\* the await returns the answer or re-raises what the call raised
AskJoined(aj, fields) ==
    /\ askPc \in {"returned", "raised"}
    /\ AskFinished(askPc = "returned", aj, fields)

InitStages ==
    /\ settings = ExampleSettings /\ settingsAtStart = settings /\ runIdle
    /\ pc = "idle" /\ post = NoPost /\ ai_json = NoVerdict /\ flag = "None"
    /\ text = NoText /\ primaryOut = <<>> /\ secondaryOut = <<>>
    /\ lastClick = "none" /\ UsersGroupChat = GroupId
    /\ evalLog = <<>> /\ fnIdle
    /\ askPc = "off" /\ sources = <<>> /\ idx = 0 /\ content_items = <<>>
    /\ temps_to_cleanup = <<>> /\ tmpFiles = {} /\ request = <<>> /\ aborted = "no"
    /\ fetched = <<>>
    /\ askEnv \in [PROMPT : BOOLEAN, QUESTION : {TRUE},
                   pdfkit : BOOLEAN, weasyprint : {FALSE}]

NextStages ==
    \/ \E n \in 0..MaxStageUrls, inl \in {"none", "rate"} :
          pc = "idle" /\ OnChannelPost("source", n, inl)
    \/ ProcessUrlsBegin
    \/ \E srcs \in UNION {[1..n -> SourceKinds] : n \in 1..(MaxStageUrls - 1)} :
          AskInThread(srcs)
    \/ AskBegin
    \/ \E r \in IF askPc = "loop" /\ idx < Len(sources)
                  THEN {ProcessSource(idx + 1, sources[idx + 1], askEnv, o) :
                           o \in Outcomes(sources[idx + 1], askEnv)}
                  ELSE {} : AskSource(r)
    \/ \E ok \in BOOLEAN : AskComplete(ok)
    \/ \E aj \in StageVerdicts, fields \in BOOLEAN : AskJoined(aj, fields)
    \/ \E ok \in BOOLEAN : PrimarySendDone(ok)
    \/ \E ok \in BOOLEAN : SecondarySendDone(ok)

SpecStages == InitStages /\ [][NextStages]_vars

---------------------------------------------------------------------------
(* SpecUrls: the URL list of a channel post, telegram_listener._extract_urls *)
(* and the split into link_text and rest_urls in on_channel_post.  A URL   *)
(* string is a site in one of three spellings: plain ("https://a"), with   *)
(* the first letter lost ("ttps://a"), or padded with blanks and newlines. *)

MaxEntities == 3
MaxSites == 2
Spellings == {"plain", "ttps", "padded"}
Url(site, form) == [site |-> site, form |-> form]
\* the empty string, and the url attribute a text_link may lack
NoUrl == Url(0, "plain")

\* the entities a post may carry: a url entity spans a URL of the text, a
\* text_link carries its url attribute, any other entity carries none
EntityKinds ==
    {[type |-> "url", raw |-> Url(k, f)] : k \in 1..MaxSites, f \in Spellings}
        \cup {[type |-> "text_link", raw |-> Url(k, f)] : k \in 1..MaxSites, f \in Spellings}
        \cup {[type |-> "text_link", raw |-> NoUrl], [type |-> "bold", raw |-> NoUrl]}

\* raw.strip().replace("\n", "")
StripNewlines(u) == IF u.form = "padded" THEN Url(u.site, "plain") ELSE u
\* the repair of a lost first letter, made for url entities only
RepairScheme(u) == IF u.form = "ttps" THEN Url(u.site, "plain") ELSE u

\* the strings appended to urls, in entity order
RECURSIVE CollectUrls(_)
CollectUrls(entities) ==
    IF entities = <<>> THEN <<>>
    ELSE LET ent == Head(entities)
             rest == CollectUrls(Tail(entities))
         IN  CASE ent.type = "url" -> <<RepairScheme(StripNewlines(ent.raw))>> \o rest
               [] ent.type = "text_link" /\ ent.raw # NoUrl -> <<StripNewlines(ent.raw)>> \o rest
               [] OTHER -> rest

\* the loop over urls with the set seen
RECURSIVE Uniq(_, _, _)
Uniq(urls, seen, uniq) ==
    IF urls = <<>> THEN uniq
    ELSE IF Head(urls) \in seen THEN Uniq(Tail(urls), seen, uniq)
    ELSE Uniq(Tail(urls), seen \cup {Head(urls)}, Append(uniq, Head(urls)))

\* (mutant) the collected list is returned as it is
_extract_urls_noDedup(entities) == CollectUrls(entities)

_extract_urls(entities) == Uniq(CollectUrls(entities), {}, <<>>)

\* on_channel_post: link_text = urls[0], rest_urls = urls[1:]
SplitUrls(urls) ==
    [urls |-> urls,
     link_text |-> IF urls = <<>> THEN NoUrl ELSE urls[1],
     rest_urls |-> IF urls = <<>> THEN <<>> ELSE Tail(urls)]

ExtractUrlsOfPost ==
    /\ call.fn = "_extract_urls" /\ ret = <<>>
    /\ ret' = <<SplitUrls(_extract_urls(call.arg))>>
    /\ UNCHANGED <<cfgVars, pipeVars, evalLog, askVars, call, runVars>>

InitUrls ==
    /\ settings = ExampleSettings /\ settingsAtStart = settings /\ runIdle
    /\ pipeIdle /\ evalLog = <<>> /\ askIdle
    /\ call \in {[fn |-> "_extract_urls", arg |-> es] :
                   es \in UNION {[1..n -> EntityKinds] : n \in 0..MaxEntities}}
    /\ ret = <<>>
NextUrls == ExtractUrlsOfPost
SpecUrls == InitUrls /\ [][NextUrls]_vars

---------------------------------------------------------------------------
(* SpecMatrix: telegram_listener._split_text_and_trailing_matrix.  A text  *)
(* is the sequence of its lines; a line is known by what it holds, whether *)
(* blanks surround it, and its length in characters.                       *)

MaxLines == 4
max_chars == 12000
LongRowLen == 7000
PadLen == 2

Line(kind, lead, trail, len) ==
    [kind |-> kind, lead |-> lead, trail |-> trail, len |-> len]
\* "[1, 2]", "  [1, 2]  ", a row of LongRowLen characters, "[5]", a line of
\* prose, the same followed by blanks, an empty line, "```", "[MATRIX]",
\* "[/MATRIX]"
LineKinds ==
    { Line("row", FALSE, FALSE, 6), Line("row", TRUE, TRUE, 6),
      Line("row", FALSE, FALSE, LongRowLen), Line("single", FALSE, FALSE, 3),
      Line("prose", FALSE, FALSE, 4), Line("prose", FALSE, TRUE, 4),
      Line("blank", FALSE, FALSE, 0), Line("fence", FALSE, FALSE, 3),
      Line("tagopen", FALSE, FALSE, 8), Line("tagclose", FALSE, FALSE, 9) }

\* str.rstrip / str.lstrip / str.strip on a text given by its lines
RECURSIVE rstrip(_)
rstrip(lines) ==
    IF lines = <<>> THEN <<>>
    ELSE LET last == lines[Len(lines)]
             front == SubSeq(lines, 1, Len(lines) - 1)
         IN  IF last.kind = "blank" THEN rstrip(front)
             ELSE Append(front, [last EXCEPT !.trail = FALSE])
RECURSIVE lstrip(_)
lstrip(lines) ==
    IF lines = <<>> THEN <<>>
    ELSE IF Head(lines).kind = "blank" THEN lstrip(Tail(lines))
    ELSE <<[Head(lines) EXCEPT !.lead = FALSE]>> \o Tail(lines)
strip(lines) == lstrip(rstrip(lines))

\* len() of the text "\n".join(lines)
RECURSIVE CharLen(_)
CharLen(lines) ==
    IF lines = <<>> THEN 0
    ELSE LET l == Head(lines)
             n == l.len + (IF l.lead THEN PadLen ELSE 0) + (IF l.trail THEN PadLen ELSE 0)
         IN  IF Len(lines) = 1 THEN n ELSE n + 1 + CharLen(Tail(lines))

\* _ARRAY_ROW_RE: blanks, "[", at least two numbers separated by commas,
\* "]", blanks
_ARRAY_ROW_RE_match(l) == l.kind = "row"

\* the while loop: the index i it stops at, counted in lines before lines[i]
RECURSIVE RowsBefore(_, _)
RowsBefore(lines, i) ==
    IF i >= 1 /\ _ARRAY_ROW_RE_match(lines[i]) THEN RowsBefore(lines, i - 1) ELSE i

\* (mutant) one trailing row is enough
_extract_trailing_bracket_matrix_oneRow(lines) ==
    LET i == RowsBefore(lines, Len(lines))
        collected == SubSeq(lines, i + 1, Len(lines))
    IN  IF Len(collected) >= 1 THEN [start_idx |-> i, mat |-> strip(collected)]
        ELSE [start_idx |-> -1, mat |-> <<>>]

_extract_trailing_bracket_matrix(lines) ==
    LET i == RowsBefore(lines, Len(lines))
        collected == SubSeq(lines, i + 1, Len(lines))
    IN  IF Len(collected) >= 2 THEN [start_idx |-> i, mat |-> strip(collected)]
        ELSE [start_idx |-> -1, mat |-> <<>>]

\* text.rfind("```", 0, upto): the last fence among the first upto lines,
\* 0 for not found
rfind_fence(lines, upto) ==
    LET at == {k \in 1..upto : lines[k].kind = "fence"}
    IN  IF at = {} THEN 0 ELSE CHOOSE k \in at : \A j \in at : j <= k

NoFence == [s |-> -1, e |-> -1, code |-> <<>>]

\* last_fence and closing are the same rfind, so the second test always
\* returns (-1, -1, "")
_extract_trailing_fenced_block(lines) ==
    LET last_fence == rfind_fence(lines, Len(lines))
        closing == rfind_fence(lines, Len(lines))
        opening == rfind_fence(lines, closing - 1)
        code == strip(SubSeq(lines, opening + 1, closing - 1))
    IN  IF last_fence = 0 THEN NoFence
        ELSE IF closing = 0 \/ closing = last_fence THEN NoFence
        ELSE IF strip(SubSeq(lines, closing + 1, Len(lines))) # <<>> THEN NoFence
        ELSE IF opening = 0 THEN NoFence
        ELSE IF code = <<>> THEN NoFence
        ELSE [s |-> opening - 1, e |-> closing, code |-> code]

\* m = code if len(code) <= max_chars else code[:max_chars] + marker
Capped(code) ==
    [lines |-> code,
     keep |-> IF CharLen(code) <= max_chars THEN CharLen(code) ELSE max_chars,
     truncated |-> CharLen(code) > max_chars]

\* re.search(r"\[MATRIX\]([\s\S]+)\[/MATRIX\]\s*$"): the leftmost opening
\* tag with the closing tag at the end of the text, 0 for no match
MatrixTag(raw) ==
    LET opens == {k \in 1..(Len(raw) - 1) : raw[k].kind = "tagopen"}
    IN  IF raw = <<>> \/ raw[Len(raw)].kind # "tagclose" \/ opens = {} THEN 0
        ELSE CHOOSE k \in opens : \A j \in opens : k <= j

_split_text_and_trailing_matrix(txt) ==
    LET raw == rstrip(txt)
        lines == raw
        bm == _extract_trailing_bracket_matrix(lines)
        fb == _extract_trailing_fenced_block(raw)
        tag == MatrixTag(raw)
    IN  IF bm.start_idx # -1
          THEN [body |-> rstrip(SubSeq(lines, 1, bm.start_idx)), matrix |-> Capped(bm.mat)]
        ELSE IF fb.s # -1
          THEN [body |-> rstrip(SubSeq(raw, 1, fb.s)), matrix |-> Capped(fb.code)]
        ELSE IF tag # 0
          THEN [body |-> rstrip(SubSeq(raw, 1, tag - 1)),
                matrix |-> Capped(strip(SubSeq(raw, tag + 1, Len(raw) - 1)))]
        ELSE [body |-> raw, matrix |-> Capped(<<>>)]

SplitMatrix ==
    /\ call.fn = "_split_text_and_trailing_matrix" /\ ret = <<>>
    /\ ret' = <<_split_text_and_trailing_matrix(call.arg)>>
    /\ UNCHANGED <<cfgVars, pipeVars, evalLog, askVars, call, runVars>>

InitMatrix ==
    /\ settings = ExampleSettings /\ settingsAtStart = settings /\ runIdle
    /\ pipeIdle /\ evalLog = <<>> /\ askIdle
    /\ call \in {[fn |-> "_split_text_and_trailing_matrix", arg |-> t] :
                   t \in UNION {[1..n -> LineKinds] : n \in 0..MaxLines}}
    /\ ret = <<>>
NextMatrix == SplitMatrix
SpecMatrix == InitMatrix /\ [][NextMatrix]_vars

---------------------------------------------------------------------------
(* SpecFields: the text composed by main.process_urls, re-parsed by        *)
(* telegram_listener._extract_ai_fields_from_text (as the messenger does   *)
(* for its condensed message).  A text is the sequence of its lines.       *)

MaxQuestionLines == 3
CompanyNames == {1, 2}
TaseSymbol == 3
UsSymbol == 4
ForeignName == 5

\* a line: kind "company" / "tase" / "us" is a labelled line with its value
\* (0 for an empty one) and the spelling of its label, "anchor" the line
\* "תשובה מ-AI:", "blank" an empty line, the others carry no label
TextLine(kind, val, spelling) ==
    [kind |-> kind, val |-> val, spelling |-> spelling, lead |-> FALSE, trail |-> FALSE]
Prose == TextLine("prose", 0, 1)
BlankLine == TextLine("blank", 0, 1)
AnchorLine == TextLine("anchor", 0, 1)

\* the loop over after.splitlines(): a labelled line sets its field (an
\* empty value sets None, written 0), and the loop ends once all three are set
RECURSIVE ScanFields(_, _)
ScanFields(lines, found) ==
    IF lines = <<>> THEN found
    ELSE LET ln == Head(lines)
             f == CASE ln.kind = "company" -> [found EXCEPT !.company = ln.val]
                    [] ln.kind = "tase" -> [found EXCEPT !.tase = ln.val]
                    [] ln.kind = "us" -> [found EXCEPT !.us = ln.val]
                    [] OTHER -> found
         IN  IF f.company # 0 /\ f.tase # 0 /\ f.us # 0 THEN f
             ELSE ScanFields(Tail(lines), f)

NoFields == [company |-> 0, tase |-> 0, us |-> 0]

\* text.find(anchor): the first line holding the anchor, 0 for not found
FindAnchor(lines) ==
    LET at == {k \in DOMAIN lines : lines[k].kind = "anchor"}
    IN  IF at = {} THEN 0 ELSE CHOOSE k \in at : \A j \in at : k <= j

_extract_ai_fields_from_text(lines) ==
    LET k == FindAnchor(lines)
    IN  IF lines = <<>> \/ k = 0 THEN NoFields
        ELSE ScanFields(strip(SubSeq(lines, k + 1, Len(lines))), NoFields)

\* msg_parts of process_urls joined by newlines; sections stands for the
\* matrix, JSON, AI JSON and order sections that follow the answer
ComposeText(question_text, answer_text, sections) ==
    <<Prose>>
        \o (IF strip(question_text) = <<>> THEN <<Prose>> ELSE strip(question_text))
        \o <<BlankLine, Prose, Prose, BlankLine, AnchorLine>>
        \o strip(answer_text) \o sections

ComposeAndReparse ==
    /\ call.fn = "process_urls" /\ ret = <<>>
    /\ LET full_text == ComposeText(call.arg.question_text, call.arg.answer,
                                     call.arg.sections)
       IN  ret' = <<[full_text |-> full_text,
                     fields |-> _extract_ai_fields_from_text(full_text)]>>
    /\ UNCHANGED <<cfgVars, pipeVars, evalLog, askVars, call, runVars>>

\* the lines a post's text may hold, and the answers that embed the three
\* fields once each, in any order, with a line of prose somewhere
QuestionLines ==
    {Prose, AnchorLine, TextLine("company", ForeignName, 1),
     TextLine("tase", ForeignName, 1), TextLine("us", ForeignName, 1)}
AnswerLines ==
    {TextLine("company", c, 1) : c \in CompanyNames}
        \cup {TextLine("tase", TaseSymbol, sp) : sp \in {1, 2}}
        \cup {TextLine("us", UsSymbol, 1), Prose}
Answers ==
    {a \in [1..4 -> AnswerLines] :
        \A kd \in {"company", "tase", "us"} :
            Cardinality({k \in 1..4 : a[k].kind = kd}) = 1}

InitFields ==
    /\ settings = ExampleSettings /\ settingsAtStart = settings /\ runIdle
    /\ pipeIdle /\ evalLog = <<>> /\ askIdle
    /\ call \in {[fn |-> "process_urls",
                   arg |-> [question_text |-> q, answer |-> a, sections |-> sec]] :
                   q \in UNION {[1..n -> QuestionLines] : n \in 0..MaxQuestionLines},
                   a \in Answers,
                   sec \in {<<>>, <<BlankLine, Prose, Prose>>}}
    /\ ret = <<>>
NextFields == ComposeAndReparse
SpecFields == InitFields /\ [][NextFields]_vars

---------------------------------------------------------------------------
(* SpecOrder: main.orderList.  A price is counted in units of 10^-5, a     *)
(* level of the plan in units of 10^-4.  Where the exact product lies      *)
(* halfway between two levels, the binary value of the float decides which *)
(* one f"{v:.4f}" prints: both are outcomes.                               *)

MaxPrice == 60
HundredUnits == 10000000
PriceUnits == (-MaxPrice..MaxPrice) \cup {HundredUnits, 12345}
\* "Last Rate" of the inline object: missing, a number, a string of digits
\* (blanks around it are stripped), any other string
LastRates == {None, NaS} \cup {Num(n) : n \in PriceUnits} \cup {NumStr(n) : n \in PriceUnits}

\* _to_float_or_none: <<>> for None, else <<the float>>
_to_float_or_none(x) == IF x.t \in {"num", "numstr"} THEN <<x.v>> ELSE <<>>

\* (mutant) r cuts the digits after the fourth instead of rounding
r_truncating(micros) == {micros \div 100}

\* r = lambda v: float(f"{v:.4f}"), v given in units of 10^-6
r(micros) ==
    LET lo == micros \div 100
        rest == micros % 100
    IN  IF rest < 50 THEN {lo} ELSE IF rest > 50 THEN {lo + 1} ELSE {lo, lo + 1}

NoPlan == [plan |-> FALSE, ENTRY_PRICE |-> 0, STOP_LOSS |-> 0, TAKE_PROFIT |-> 0]

\* the plans orderList may return for last_rate_raw
orderList(last_rate_raw) ==
    LET last_rate == _to_float_or_none(last_rate_raw)
    IN  IF last_rate = <<>> THEN {NoPlan}
        ELSE {[plan |-> TRUE, ENTRY_PRICE |-> e, STOP_LOSS |-> sl, TAKE_PROFIT |-> tp] :
                 e \in r(last_rate[1] * 10), sl \in r(last_rate[1] * 9),
                 tp \in r(last_rate[1] * 20)}

OrderListReturns(plan) ==
    /\ call.fn = "orderList" /\ ret = <<>>
    /\ plan \in orderList(call.arg)
    /\ ret' = <<plan>>
    /\ UNCHANGED <<cfgVars, pipeVars, evalLog, askVars, call, runVars>>

InitOrder ==
    /\ settings = ExampleSettings /\ settingsAtStart = settings /\ runIdle
    /\ pipeIdle /\ evalLog = <<>> /\ askIdle
    /\ call \in {[fn |-> "orderList", arg |-> x] : x \in LastRates}
    /\ ret = <<>>
NextOrder ==
    \E plan \in IF call.fn = "orderList" THEN orderList(call.arg) ELSE {} :
        OrderListReturns(plan)
SpecOrder == InitOrder /\ [][NextOrder]_vars

---------------------------------------------------------------------------
(* SpecExtract: main.extract_json_from_text on the answer of the AI.  An   *)
(* answer is a sequence of pieces: prose, blanks, a fenced block (a pair   *)
(* of ``` with its body), a balanced {...} span, or a "{" that is never    *)
(* closed.  The body of a block or span is JSON, a Python-style dict that  *)
(* is JSON after normalization, or neither; obj names the object it holds. *)

MaxPieces == 3

Piece(kind, body, obj) ==
    [kind |-> kind, body |-> body, obj |-> obj, lead |-> FALSE, trail |-> FALSE]
Pieces ==
    { Piece("prose", "none", 0), Piece("blank", "none", 0),
      Piece("fence", "json", 1), Piece("fence", "pydict", 1),
      Piece("fence", "junk", 0), Piece("fence", "blank", 0),
      Piece("brace", "json", 2), Piece("brace", "json", 3),
      Piece("brace", "pydict", 2), Piece("brace", "junk", 0),
      Piece("openbrace", "none", 0) }

\* json.loads(raw_block), then json.loads of the normalized block; 0 is None
ParseBlock(blk) ==
    IF blk.body = "json" THEN blk.obj
    ELSE IF blk.body = "pydict" THEN blk.obj
    ELSE 0

\* _CODE_FENCE_RE.search: the leftmost fenced block, 0 for no match
FenceSearch(txt) ==
    LET at == {k \in DOMAIN txt : txt[k].kind = "fence"}
    IN  IF at = {} THEN 0 ELSE CHOOSE k \in at : \A j \in at : k <= j

\* _find_balanced_braces_block: the span opened by the first "{", 0 when
\* there is no "{" or the first one is never closed
_find_balanced_braces_block(txt) ==
    LET at == {k \in DOMAIN txt : txt[k].kind \in {"brace", "openbrace"}}
        first == CHOOSE k \in at : \A j \in at : k <= j
    IN  IF at = {} THEN 0 ELSE IF txt[first].kind = "openbrace" THEN 0 ELSE first

\* text[:start] + text[end:]
Without(txt, k) == SubSeq(txt, 1, k - 1) \o SubSeq(txt, k + 1, Len(txt))

\* extract_json_from_text(full_text, remove_from_text=True)
extract_json_from_text(full_text) ==
    LET m == FenceSearch(full_text)
        se == _find_balanced_braces_block(full_text)
    IN  IF full_text = <<>> THEN [text |-> full_text, obj |-> 0, raw_block |-> <<>>]
        ELSE IF m # 0 /\ full_text[m].body # "blank"
          THEN [text |-> strip(Without(full_text, m)),
                obj |-> ParseBlock(full_text[m]), raw_block |-> <<full_text[m]>>]
        ELSE IF se # 0
          THEN [text |-> strip(Without(full_text, se)),
                obj |-> ParseBlock(full_text[se]), raw_block |-> <<full_text[se]>>]
        ELSE [text |-> full_text, obj |-> 0, raw_block |-> <<>>]

ExtractJson ==
    /\ call.fn = "extract_json_from_text" /\ ret = <<>>
    /\ ret' = <<extract_json_from_text(call.arg)>>
    /\ UNCHANGED <<cfgVars, pipeVars, evalLog, askVars, call, runVars>>

InitExtract ==
    /\ settings = ExampleSettings /\ settingsAtStart = settings /\ runIdle
    /\ pipeIdle /\ evalLog = <<>> /\ askIdle
    /\ call \in {[fn |-> "extract_json_from_text", arg |-> t] :
                   t \in UNION {[1..n -> Pieces] : n \in 0..MaxPieces}}
    /\ ret = <<>>
NextExtract == ExtractJson
SpecExtract == InitExtract /\ [][NextExtract]_vars

---------------------------------------------------------------------------
(* SpecEntry: the entry of ai.ask_with_sources: which system prompt and    *)
(* which question the call works with, given its arguments and the PROMPT  *)
(* and QUESTION values of the environment.  A text is named by a number;   *)
(* None stands for an argument not passed and a variable not set.          *)

PromptTexts == {[t |-> "str", v |-> 1], [t |-> "str", v |-> 2]}
QuestionTexts == {[t |-> "str", v |-> 3], [t |-> "str", v |-> 4]}

\* os.getenv(name): the value of the environment, whatever the argument is
FromEnv(argument, envValue) == envValue

\* the call up to the first content item: the configuration error without
\* a prompt, else the instructions of the request and the question item
AskEntry(system_prompt, question, envPROMPT, envQUESTION) ==
    LET prompt == FromEnv(system_prompt, envPROMPT)
        q == FromEnv(question, envQUESTION)
    IN  IF prompt = None THEN [raised |-> TRUE, instructions |-> None, question |-> None]
        ELSE [raised |-> FALSE, instructions |-> prompt, question |-> q]

AskEntryReturns ==
    /\ call.fn = "ask_with_sources" /\ ret = <<>>
    /\ ret' = <<AskEntry(call.arg.system_prompt, call.arg.question,
                         call.arg.PROMPT, call.arg.QUESTION)>>
    /\ UNCHANGED <<cfgVars, pipeVars, evalLog, askVars, call, runVars>>

InitEntry ==
    /\ settings = ExampleSettings /\ settingsAtStart = settings /\ runIdle
    /\ pipeIdle /\ evalLog = <<>> /\ askIdle
    /\ call \in {[fn |-> "ask_with_sources", arg |-> a] :
                   a \in [system_prompt : {None} \cup PromptTexts,
                          question : {None} \cup QuestionTexts,
                          PROMPT : {None} \cup PromptTexts,
                          QUESTION : {None} \cup QuestionTexts]}
    /\ ret = <<>>
NextEntry == AskEntryReturns
SpecEntry == InitEntry /\ [][NextEntry]_vars

---------------------------------------------------------------------------
(* SpecRun: the process.  main.py is loaded, run() calls                   *)
(* asyncio.run(amain()), amain creates the messenger and the listener and  *)
(* starts the poll thread, whose loop calls run_polling and, when that     *)
(* raises, sleeps RETRY_DELAY_SECONDS and calls it again.  A variable of   *)
(* the environment is "set", "unset" or "empty" (present with no value).   *)

MaxStartFailures == 2
MaxPollFailures == 3
MaxPosts == 2
EnvStates == {"set", "unset", "empty"}

\* a value that amain's tests find missing: "" or 0
Missing(v) == v # "set"
MissingConfig == \E k \in DOMAIN dotenv : Missing(dotenv[k])

\* loading main.py: int("") raises for an id that is present but empty;
\* a missing value is only logged here
LoadModule ==
    /\ runPc = "import"
    /\ runPc' = IF "empty" \in {dotenv.SOURCE_CHANNEL_ID, dotenv.TARGET_GROUP_ID}
                  THEN "crashed" ELSE "run"
    /\ UNCHANGED <<cfgVars, pipeVars, evalLog, askVars, fnVars, pollPc, dotenv,
                   messenger, listener, startFailures, pollFailures, handled>>

\* run(): one turn of its loop calls asyncio.run(amain())
RunCallsAmain ==
    /\ runPc = "run"
    /\ runPc' = "amain"
    /\ UNCHANGED <<cfgVars, pipeVars, evalLog, askVars, fnVars, pollPc, dotenv,
                   messenger, listener, startFailures, pollFailures, handled>>

\* (mutant) amain logs the missing value and goes on
AmainStarts_onlyLogs(outcome) ==
    /\ runPc = "amain" /\ outcome = "ok"
    /\ messenger' = TRUE /\ listener' = TRUE
    /\ pollPc' = "starting" /\ runPc' = "serving"
    /\ UNCHANGED <<cfgVars, pipeVars, evalLog, askVars, fnVars, dotenv,
                   startFailures, pollFailures, handled>>

\* amain up to its sleep loop: a missing value makes it return, and run()
\* then leaves its loop; a messenger that cannot be built raises into
\* run(); a listener that cannot be built or started makes amain return
AmainStarts(outcome) ==
    /\ runPc = "amain"
    /\ IF MissingConfig
         THEN /\ outcome = "ok"
              /\ runPc' = "exited"
              /\ UNCHANGED <<messenger, listener, pollPc, startFailures>>
         ELSE CASE outcome = "messenger_raises" ->
                     /\ startFailures < MaxStartFailures
                     /\ startFailures' = startFailures + 1
                     /\ runPc' = "waiting"
                     /\ UNCHANGED <<messenger, listener, pollPc>>
                [] outcome = "listener_raises" ->
                     /\ messenger' = TRUE /\ runPc' = "exited"
                     /\ UNCHANGED <<listener, pollPc, startFailures>>
                [] OTHER ->
                     /\ messenger' = TRUE /\ listener' = TRUE
                     /\ pollPc' = "starting" /\ runPc' = "serving"
                     /\ UNCHANGED startFailures
    /\ UNCHANGED <<cfgVars, pipeVars, evalLog, askVars, fnVars, dotenv,
                   pollFailures, handled>>

\* run(): time.sleep(RETRY_DELAY_SECONDS) is over, the loop turns again
RunRetries ==
    /\ runPc = "waiting"
    /\ runPc' = "amain"
    /\ UNCHANGED <<cfgVars, pipeVars, evalLog, askVars, fnVars, pollPc, dotenv,
                   messenger, listener, startFailures, pollFailures, handled>>

\* top of the poll loop: the application is built if need be and
\* run_polling is called; either may raise
PollLoopTop(ok) ==
    /\ pollPc = "starting"
    /\ IF ok THEN pollPc' = "polling" /\ pollFailures' = pollFailures
       ELSE /\ pollFailures < MaxPollFailures
            /\ pollPc' = "sleeping" /\ pollFailures' = pollFailures + 1
    /\ UNCHANGED <<cfgVars, pipeVars, evalLog, askVars, fnVars, runPc, dotenv,
                   messenger, listener, startFailures, handled>>

\* (mutant) an exception of run_polling ends the loop
PollingRaises_givesUp ==
    /\ pollPc = "polling" /\ pollFailures < MaxPollFailures
    /\ pollPc' = "stopped" /\ pollFailures' = pollFailures + 1
    /\ UNCHANGED <<cfgVars, pipeVars, evalLog, askVars, fnVars, runPc, dotenv,
                   messenger, listener, startFailures, handled>>

\* run_polling raises: the exception is logged and the thread sleeps
PollingRaises ==
    /\ pollPc = "polling" /\ pollFailures < MaxPollFailures
    /\ pollPc' = "sleeping" /\ pollFailures' = pollFailures + 1
    /\ UNCHANGED <<cfgVars, pipeVars, evalLog, askVars, fnVars, runPc, dotenv,
                   messenger, listener, startFailures, handled>>

\* run_polling returns: the loop is left by its break
PollingStopsGracefully ==
    /\ pollPc = "polling"
    /\ pollPc' = "stopped"
    /\ UNCHANGED <<cfgVars, pipeVars, evalLog, askVars, fnVars, runPc, dotenv,
                   messenger, listener, startFailures, pollFailures, handled>>

\* time.sleep(RETRY_DELAY_SECONDS) is over, the loop turns again
PollSleepEnds ==
    /\ pollPc = "sleeping"
    /\ pollPc' = "starting"
    /\ UNCHANGED <<cfgVars, pipeVars, evalLog, askVars, fnVars, runPc, dotenv,
                   messenger, listener, startFailures, pollFailures, handled>>

\* while polling runs, a channel post is handed to on_channel_post
PostArrives ==
    /\ pollPc = "polling" /\ handled < MaxPosts
    /\ handled' = handled + 1
    /\ UNCHANGED <<cfgVars, pipeVars, evalLog, askVars, fnVars, runPc, pollPc,
                   dotenv, messenger, listener, startFailures, pollFailures>>

InitRun ==
    /\ settings = ExampleSettings /\ settingsAtStart = settings
    /\ pipeIdle /\ evalLog = <<>> /\ askIdle /\ fnIdle
    /\ runPc = "import" /\ pollPc = "off"
    /\ dotenv \in [BOT_TOKEN : EnvStates, SOURCE_CHANNEL_ID : EnvStates,
                   TARGET_GROUP_ID : EnvStates]
    /\ messenger = FALSE /\ listener = FALSE
    /\ startFailures = 0 /\ pollFailures = 0 /\ handled = 0

NextRun ==
    \/ LoadModule
    \/ RunCallsAmain
    \/ \E outcome \in {"ok", "messenger_raises", "listener_raises"} :
          AmainStarts(outcome)
    \/ RunRetries
    \/ \E ok \in BOOLEAN : PollLoopTop(ok)
    \/ PollingRaises
    \/ PollingStopsGracefully
    \/ PollSleepEnds
    \/ PostArrives

SpecRun == InitRun /\ [][NextRun]_vars

\* the poll thread is scheduled: a sleep that has ended and a loop that can
\* turn do so
SpecRunFair ==
    SpecRun /\ WF_vars(PollSleepEnds) /\ WF_vars(\E ok \in BOOLEAN : PollLoopTop(ok))

---------------------------------------------------------------------------
(* SpecChars: the brace scanners and their parsers, character by           *)
(* character: telegram_listener.extract_inline_pyjson, and                 *)
(* main._find_balanced_braces_block with the balanced-brace branch of      *)
(* main.extract_json_from_text.  A text is a sequence of marks: "{" and    *)
(* "}", "x" for prose, "q" for a member written as JSON ("a": 1), "p" for  *)
(* a member written as Python ('a': None), "s" for a JSON member whose     *)
(* string holds an apostrophe ("a": "it's"), and "b" for what              *)
(* normalization makes of "s" ("a": "it"s").  A "{" inside an object       *)
(* stands for a member whose value is an object.                           *)

MaxChars == 5
Marks == {"{", "}", "x", "q", "p", "s"}
Texts == UNION {[1..n -> Marks] : n \in 0..MaxChars}

\* no match
NoSpan == [s |-> 0, e |-> 0]

\* depth after txt[a..k], counted as the scanner counts it
DepthFrom(txt, a, k) ==
    Cardinality({j \in a..k : txt[j] = "{"}) - Cardinality({j \in a..k : txt[j] = "}"})

\* main._find_balanced_braces_block: from the first "{", the position where
\* the depth is back at 0; s and e are the first and the last position of
\* the span
find_balanced_braces_chars(txt) ==
    LET opens == {j \in DOMAIN txt : txt[j] = "{"}
    IN  IF opens = {} THEN NoSpan
        ELSE LET start == CHOOSE j \in opens : \A o \in opens : j <= o
                 ends == {k \in start..Len(txt) : DepthFrom(txt, start, k) = 0}
             IN  IF ends = {} THEN NoSpan
                 ELSE [s |-> start, e |-> CHOOSE k \in ends : \A o \in ends : k <= o]

\* _PYDICT_BLOCK_RE.search: the leftmost "{" and, the match being lazy, the
\* first "}" after it
_PYDICT_BLOCK_RE_search(txt) ==
    LET opens == {j \in DOMAIN txt : txt[j] = "{"}
    IN  IF opens = {} THEN NoSpan
        ELSE LET start == CHOOSE j \in opens : \A o \in opens : j <= o
                 closes == {k \in start..Len(txt) : txt[k] = "}"}
             IN  IF closes = {} THEN NoSpan
                 ELSE [s |-> start, e |-> CHOOSE k \in closes : \A o \in closes : k <= o]

\* json.loads of a block: <<object>> for an object of JSON members and
\* nested objects (the object is named by its marks), <<>> for an error
json_loads(raw) ==
    IF /\ Len(raw) >= 2 /\ raw[1] = "{"
       /\ DepthFrom(raw, 1, Len(raw)) = 0
       /\ \A k \in 1..(Len(raw) - 1) : DepthFrom(raw, 1, k) > 0
       /\ \A k \in DOMAIN raw : raw[k] \in {"{", "}", "q", "s"}
      THEN <<raw>> ELSE <<>>

\* the replacements of both normalizations: every apostrophe becomes a
\* double quote, None / True / False become null / true / false
ReplaceQuotes(raw) ==
    [k \in DOMAIN raw |-> CASE raw[k] = "p" -> "q"
                            [] raw[k] = "s" -> "b"
                            [] OTHER -> raw[k]]

_normalize_maybe_python_dict_to_json(raw) == ReplaceQuotes(raw)

\* text[:s] + text[e:], the span taken out
CutOut(txt, span) == SubSeq(txt, 1, span.s - 1) \o SubSeq(txt, span.e + 1, Len(txt))

NoResult(txt) == [text |-> txt, obj |-> <<>>, raw |-> <<>>]

\* extract_inline_pyjson: the block is normalized, then parsed
InlineParse(raw) == json_loads(ReplaceQuotes(raw))

\* telegram_listener.extract_inline_pyjson(full_text, remove_from_text)
extract_inline_pyjson(full_text, remove_from_text) ==
    LET m == _PYDICT_BLOCK_RE_search(full_text)
    IN  IF full_text = <<>> \/ m = NoSpan THEN NoResult(full_text)
        ELSE LET raw == SubSeq(full_text, m.s, m.e)
             IN  [text |-> IF remove_from_text THEN CutOut(full_text, m) ELSE full_text,
                  obj |-> InlineParse(raw),
                  raw |-> <<raw>>]

\* the parse of extract_json_from_text: the block as it stands, and after
\* an error the normalized block
LoadsWithRetry(raw) ==
    IF json_loads(raw) # <<>> THEN json_loads(raw)
    ELSE json_loads(_normalize_maybe_python_dict_to_json(raw))

\* main.extract_json_from_text on a text without a fenced block: the
\* balanced-brace branch
BalancedBranch(full_text, remove_from_text) ==
    LET se == find_balanced_braces_chars(full_text)
    IN  IF full_text = <<>> \/ se = NoSpan THEN NoResult(full_text)
        ELSE LET raw == SubSeq(full_text, se.s, se.e)
             IN  [text |-> IF remove_from_text THEN CutOut(full_text, se) ELSE full_text,
                  obj |-> LoadsWithRetry(raw),
                  raw |-> <<raw>>]

ExtractInline ==
    /\ call.fn = "extract_inline_pyjson" /\ ret = <<>>
    /\ ret' = <<extract_inline_pyjson(call.arg, TRUE)>>
    /\ UNCHANGED <<cfgVars, pipeVars, evalLog, askVars, call, runVars>>

FindBalanced ==
    /\ call.fn = "_find_balanced_braces_block" /\ ret = <<>>
    /\ ret' = <<find_balanced_braces_chars(call.arg)>>
    /\ UNCHANGED <<cfgVars, pipeVars, evalLog, askVars, call, runVars>>

ExtractBalanced ==
    /\ call.fn = "extract_json_from_text" /\ ret = <<>>
    /\ ret' = <<BalancedBranch(call.arg, TRUE)>>
    /\ UNCHANGED <<cfgVars, pipeVars, evalLog, askVars, call, runVars>>

InitChars ==
    /\ settings = ExampleSettings /\ settingsAtStart = settings /\ runIdle
    /\ pipeIdle /\ evalLog = <<>> /\ askIdle
    /\ call \in {[fn |-> f, arg |-> t] :
                   f \in {"extract_inline_pyjson", "_find_balanced_braces_block",
                          "extract_json_from_text"},
                   t \in Texts}
    /\ ret = <<>>
NextChars == ExtractInline \/ FindBalanced \/ ExtractBalanced
SpecChars == InitChars /\ [][NextChars]_vars

---------------------------------------------------------------------------
(* SpecClean: the cleaning of a post's text in on_channel_post, on marks:  *)
(* "u" is a collected URL as the text writes it, "d" the display text of a *)
(* text_link entity, "r" a line that is a matrix row, the others as in     *)
(* SpecChars.  A post has URLs when its text holds a "u" or a "d".         *)

MaxPostChars == 4
PostMarks == {"u", "d", "{", "}", "q", "x", "r"}
PostTexts == UNION {[1..n -> PostMarks] : n \in 0..MaxPostChars}

\* str.replace(mark, ""): every occurrence is taken out
RECURSIVE RemoveAll(_, _)
RemoveAll(txt, mark) ==
    IF txt = <<>> THEN <<>>
    ELSE IF Head(txt) = mark THEN RemoveAll(Tail(txt), mark)
    ELSE <<Head(txt)>> \o RemoveAll(Tail(txt), mark)

\* number of matrix rows that end the text
RECURSIVE TrailingRowCount(_)
TrailingRowCount(txt) ==
    IF txt = <<>> \/ txt[Len(txt)] # "r" THEN 0
    ELSE 1 + TrailingRowCount(SubSeq(txt, 1, Len(txt) - 1))

\* _split_text_and_trailing_matrix on short rows: two or more rows that end
\* the text are split off
SplitTrailingRows(txt) ==
    LET n == TrailingRowCount(txt)
    IN  IF n >= 2 THEN [body |-> SubSeq(txt, 1, Len(txt) - n),
                        matrix |-> SubSeq(txt, Len(txt) - n + 1, Len(txt))]
        ELSE [body |-> txt, matrix |-> <<>>]

\* on_channel_post from question_text = text to the split of the matrix
CleanQuestionText(txt) ==
    LET hasUrls == \E k \in DOMAIN txt : txt[k] \in {"u", "d"}
        noUrls == IF hasUrls THEN RemoveAll(RemoveAll(txt, "u"), "d") ELSE txt
        inl == extract_inline_pyjson(noUrls, TRUE)
        split == SplitTrailingRows(inl.text)
    IN  [question_text |-> split.body, inline_json |-> inl.obj,
         inline_json_raw |-> inl.raw, matrix_text |-> split.matrix]

CleanPost ==
    /\ call.fn = "on_channel_post" /\ ret = <<>>
    /\ ret' = <<CleanQuestionText(call.arg)>>
    /\ UNCHANGED <<cfgVars, pipeVars, evalLog, askVars, call, runVars>>

InitClean ==
    /\ settings = ExampleSettings /\ settingsAtStart = settings /\ runIdle
    /\ pipeIdle /\ evalLog = <<>> /\ askIdle
    /\ call \in {[fn |-> "on_channel_post", arg |-> t] : t \in PostTexts}
    /\ ret = <<>>
NextClean == CleanPost
SpecClean == InitClean /\ [][NextClean]_vars

---------------------------------------------------------------------------
(* Claims about the decision (SpecDecide, SpecRetune).                     *)

\* every threshold of the file and every probability of the verdict is a number
AllPresent(e) ==
    /\ e.aj.kind = "dict" /\ e.file.readable
    /\ floatOk(e.aj.prob_up) /\ floatOk(e.aj.prob_down) /\ floatOk(e.aj.prob_stable)
    /\ None \notin {e.file.min1, e.file.max1, e.file.min2, e.file.max2}

\* C1: with all values present, calcPresentGoodRate returns true exactly when
\* min1 <= prob_up - prob_down <= max1 and min2 <= prob_up - prob_stable <= max2;
\* thresholds (10,40,5,30) make (60,30,40) actionable and (60,30,10) not.
C1_ActionableIffBothIntervals ==
    \A i \in DOMAIN evalLog :
        LET e == evalLog[i]
            upDown == e.aj.prob_up.v - e.aj.prob_down.v
            upStable == e.aj.prob_up.v - e.aj.prob_stable.v
        IN  /\ AllPresent(e) =>
                /\ e.out \in {"True", "False"}
                /\ e.out = "True" <=>
                      /\ e.file.min1.v <= upDown /\ upDown <= e.file.max1.v
                      /\ e.file.min2.v <= upStable /\ upStable <= e.file.max2.v
            /\ (e.file = ExampleSettings /\ e.aj = Verdict(Num(60), Num(30), Num(40)))
                  => e.out = "True"
            /\ (e.file = ExampleSettings /\ e.aj = Verdict(Num(60), Num(30), Num(10)))
                  => e.out = "False"

\* C1 witness: the first interval holds, the second does not, and the
\* evaluation returned false
C1_Witness ==
    \E i \in DOMAIN evalLog :
        /\ evalLog[i].file = ExampleSettings
        /\ evalLog[i].aj = Verdict(Num(60), Num(30), Num(10))
        /\ evalLog[i].out = "False"

\* C3: every evaluation decides with the thresholds the file holds at the
\* moment of that evaluation, whatever the file held at earlier evaluations
\* or at start.
C3_ThresholdsReadFresh ==
    \A i \in DOMAIN evalLog :
        evalLog[i].out = flagOf(evalLog[i].aj, evalLog[i].file)

\* C3 witness: the same verdict evaluated twice, the file edited in between,
\* and the second evaluation decides otherwise than the first
C3_Witness ==
    /\ Len(evalLog) = 2
    /\ evalLog[1].aj = evalLog[2].aj
    /\ evalLog[1].file = settingsAtStart
    /\ evalLog[2].file # evalLog[1].file
    /\ evalLog[1].out = "False" /\ evalLog[2].out = "True"

---------------------------------------------------------------------------
(* Claims about the pipeline (Spec).                                       *)

\* a probability is missing or unparseable, a threshold is missing, or the
\* file cannot be read
FailsClosedCase(aj, file) ==
    \/ ~floatOk(aj.prob_up) \/ ~floatOk(aj.prob_down) \/ ~floatOk(aj.prob_stable)
    \/ ~file.readable
    \/ None \in {file.min1, file.max1, file.min2, file.max2}

\* C2: the step that evaluates a verdict with a missing or unparseable
\* probability, a missing threshold or an unreadable file never sets the flag
\* to true, and while the flag is not true nothing is sent to the secondary
\* destination for that post.
C2_FailsClosed ==
    [][ /\ (pc = "asking" /\ pc' = "primary" /\ FailsClosedCase(ai_json', settings))
            => flag' # "True"
        /\ (flag' # "True") => (secondaryOut' = <<>> /\ pc' # "secondary")
      ]_vars

\* C2 witness: a dispatched post whose verdict lacks prob_stable, with a
\* secondary destination configured and an order plan to show
C2_Witness ==
    /\ pc = "done" /\ ai_json = Verdict(Num(60), Num(30), None)
    /\ UsersGroupChat # 0 /\ text.plan /\ text.fields
    /\ flag = "False" /\ secondaryOut = <<>> /\ Len(primaryOut) = 1

\* C4: once the messenger has been called for a post, exactly one send of the
\* composed text to the primary destination is made, whatever the flag; none
\* is made before.
C4_PrimaryExactlyOnce ==
    /\ (pc \in {"secondary", "done"} /\ text.kind # "none")
          => (Len(primaryOut) = 1 /\ primaryOut[1].text = text)
    /\ (pc \in {"idle", "scheduled", "asking", "primary"}) => primaryOut = <<>>

\* C4 witness: an actionable signal, cross-posted, with its one primary post
C4_Witness ==
    /\ pc = "done" /\ flag = "True" /\ Len(secondaryOut) = 1
    /\ Len(primaryOut) = 1 /\ primaryOut[1].delivered

\* C5: every message posted to the primary destination carries the three
\* controls accept, reject and cancel.
C5_PrimaryCarriesControls ==
    \A i \in DOMAIN primaryOut : primaryOut[i].buttons = Controls

\* C6: a message goes to the secondary destination only for a post whose flag
\* is true and with UsersGroupChat configured, at most once, and without
\* controls.
C6_SecondaryOnlyIfActionable ==
    /\ (secondaryOut # <<>> \/ pc = "secondary")
          => (flag = "True" /\ ai_json.kind = "dict" /\ UsersGroupChat # 0)
    /\ Len(secondaryOut) <= 1
    /\ \A i \in DOMAIN secondaryOut : secondaryOut[i].buttons = {}

\* C6 witness: the condensed message has been sent
C6_Witness ==
    /\ pc = "done" /\ Len(secondaryOut) = 1 /\ secondaryOut[1].delivered
    /\ secondaryOut[1].text.kind = "condensed"

\* C7: after an accept or reject click on a posted primary message, a
\* decision line with the re-parsed fields has been forwarded to the secondary
\* destination.
C7_ClickForwardsDecision ==
    (lastClick \in {"accept", "reject"})
        => \E i \in DOMAIN secondaryOut : secondaryOut[i].text.kind = "decision"

\* C10: a post of the source channel with at least one URL, once handled,
\* has a message delivered to the primary destination.
C10_NoSignalDropped ==
    (pc = "done" /\ post.chat = "source" /\ post.nUrls >= 1)
        => \E i \in DOMAIN primaryOut : primaryOut[i].delivered

---------------------------------------------------------------------------
(* Claims about the stages of one post (SpecStages).                       *)

\* C12: the stages of one post never overlap: the completion request is made
\* only after every source has been processed; the answer is parsed, the flag
\* decided and the text composed only after the call has returned or raised;
\* the flag is decided on the parsed verdict; and a message is sent only
\* after the flag is decided and the text composed.
C12_StagesInSequence ==
    /\ request # <<>> => idx = Len(sources)
    /\ askPc \in {"returned", "raised"} =>
          (idx = Len(sources) \/ aborted \in {"config", "source"})
    /\ (post.nUrls > 1 /\ (ai_json # NoVerdict \/ flag # "None" \/ text # NoText))
          => askPc \in {"returned", "raised"}
    /\ flag # "None" => (ai_json # NoVerdict /\ flag = flagOf(ai_json, settings))
    /\ (primaryOut # <<>> \/ secondaryOut # <<>>)
          => (text # NoText /\ pc \in {"secondary", "done"})
    /\ secondaryOut # <<>> => primaryOut # <<>>
    /\ askPc \notin {"off", "returned", "raised"} => pc = "asking"

\* C12 witness: a post with two sources went through every stage: both
\* processed, the request made with their content, the verdict decided, both
\* messages sent
C12_Witness ==
    /\ pc = "done" /\ Len(sources) = 2 /\ idx = 2 /\ askPc = "returned"
    /\ request = content_items /\ Len(request) >= 2
    /\ flag = "True" /\ Len(primaryOut) = 1 /\ Len(secondaryOut) = 1

---------------------------------------------------------------------------
(* Claims about the URL list of a post (SpecUrls).                         *)

\* position of the first entity whose cleaned URL is u
FirstSeen(u, collected) ==
    CHOOSE k \in DOMAIN collected :
        collected[k] = u /\ \A j \in 1..(k - 1) : collected[j] # u

\* C13: for a post with at least one entity URL, rest_urls is the
\* de-duplicated URL list without its first element: it does not contain
\* link_text, it holds every other URL of the post exactly once, and in the
\* order in which those URLs were first seen.
C13_ExtraLinksDedupTail ==
    (call.fn = "_extract_urls" /\ ret # <<>>) =>
        LET collected == CollectUrls(call.arg)
            rest == ret[1].rest_urls
        IN  collected # <<>> =>
              /\ ret[1].link_text = collected[1]
              /\ ret[1].link_text \notin Range(rest)
              /\ Range(rest) = Range(collected) \ {collected[1]}
              /\ \A a, b \in DOMAIN rest : a # b => rest[a] # rest[b]
              /\ \A a, b \in DOMAIN rest :
                    a < b => FirstSeen(rest[a], collected) < FirstSeen(rest[b], collected)

\* C13 witness: the primary link is repeated after another URL, in another
\* spelling, and one extra link is left
C13_Witness ==
    /\ call.fn = "_extract_urls" /\ ret # <<>>
    /\ call.arg = <<[type |-> "url", raw |-> Url(1, "ttps")],
                    [type |-> "url", raw |-> Url(2, "plain")],
                    [type |-> "url", raw |-> Url(1, "padded")]>>
    /\ ret[1].rest_urls = <<Url(2, "plain")>>

---------------------------------------------------------------------------
(* Claims about the matrix extractor (SpecMatrix).                         *)

\* the text of the call without its trailing blanks, as the claims read it
GivenLines == rstrip(call.arg)
\* number of lines of the maximal trailing run of bracket rows
TrailingRows ==
    LET t == GivenLines
    IN  CHOOSE k \in 0..Len(t) :
          /\ \A j \in (Len(t) - k + 1)..Len(t) : t[j].kind = "row"
          /\ (k < Len(t) => t[Len(t) - k].kind # "row")
SplitReturned == call.fn = "_split_text_and_trailing_matrix" /\ ret # <<>>

\* C14 (as stated): for a text ending in two or more bracket rows the matrix
\* returned is exactly the maximal trailing run of rows and the body is the
\* lines before the run; a single trailing row gives no matrix.
C14_MatrixIsTrailingRun ==
    SplitReturned =>
        LET t == GivenLines
            k == TrailingRows
        IN  /\ k >= 2 =>
                /\ ret[1].matrix.lines = strip(SubSeq(t, Len(t) - k + 1, Len(t)))
                /\ ret[1].matrix.keep = CharLen(ret[1].matrix.lines)
                /\ ~ret[1].matrix.truncated
                /\ ret[1].body = rstrip(SubSeq(t, 1, Len(t) - k))
            /\ k = 1 => (ret[1].matrix.lines = <<>> /\ ret[1].body = t)

\* C14 (amended): the same, the matrix being cut at max_chars characters and
\* marked as truncated when the run is longer than that.
C14_MatrixIsTrailingRunCapped ==
    SplitReturned =>
        LET t == GivenLines
            k == TrailingRows
            run == strip(SubSeq(t, Len(t) - k + 1, Len(t)))
        IN  /\ k >= 2 =>
                /\ ret[1].matrix.lines = run
                /\ ret[1].matrix.truncated = (CharLen(run) > max_chars)
                /\ ret[1].matrix.keep =
                      IF CharLen(run) > max_chars THEN max_chars ELSE CharLen(run)
                /\ ret[1].body = rstrip(SubSeq(t, 1, Len(t) - k))
            /\ k = 1 => (ret[1].matrix.lines = <<>> /\ ret[1].body = t)

\* C14 witness: prose, a lone row of one number, then a run of two rows
\* followed by an empty line
C14_Witness ==
    /\ SplitReturned
    /\ call.arg = <<Line("prose", FALSE, TRUE, 4), Line("row", TRUE, TRUE, 6),
                    Line("row", FALSE, FALSE, 6), Line("blank", FALSE, FALSE, 0)>>
    /\ ret[1].body = <<Line("prose", FALSE, FALSE, 4)>>
    /\ ret[1].matrix.lines = <<Line("row", FALSE, TRUE, 6), Line("row", FALSE, FALSE, 6)>>

\* C15: for a text whose only trailing content is a fenced block (an opening
\* fence, a body that is not empty, the closing fence as the last line) the
\* matrix returned is the body of the block, cut at the cap, and the text
\* returned is what precedes the opening fence.
C15_FencedBlockIsMatrix ==
    SplitReturned =>
        LET t == GivenLines
            closing == Len(t)
            opening == rfind_fence(t, closing - 1)
            code == strip(SubSeq(t, opening + 1, closing - 1))
        IN  (t # <<>> /\ t[closing].kind = "fence" /\ opening # 0 /\ code # <<>>) =>
                /\ ret[1].matrix = Capped(code)
                /\ ret[1].body = rstrip(SubSeq(t, 1, opening - 1))

---------------------------------------------------------------------------
(* Claims about the composed text (SpecFields).                            *)

\* the value the answer embeds under a label
Embedded(kd) ==
    LET a == call.arg.answer
    IN  a[CHOOSE k \in DOMAIN a : a[k].kind = kd].val

\* C16: re-parsing a composed text returns the company, the TASE symbol and
\* the US symbol that its AI-answer section embeds as labelled lines.
C16_FieldsRoundTrip ==
    (call.fn = "process_urls" /\ ret # <<>>) =>
        ret[1].fields = [company |-> Embedded("company"), tase |-> Embedded("tase"),
                         us |-> Embedded("us")]

---------------------------------------------------------------------------
(* Claims about the order plan (SpecOrder).                                *)

\* level (units of 10^-4) is a nearest level to exact (units of 10^-6)
Rounded4(level, exact) ==
    level * 100 - exact <= 50 /\ exact - level * 100 <= 50

\* C17: for a price p that parses as a number orderList returns p, 0.9 p
\* and 2 p, each rounded to 4 decimal places (100.0 gives 100.0000, 90.0000,
\* 200.0000), and it returns no plan exactly when the price is missing or
\* does not parse.
C17_OrderPlanLevels ==
    (call.fn = "orderList" /\ ret # <<>>) =>
        LET p == call.arg
            parses == p.t \in {"num", "numstr"}
        IN  /\ ret[1].plan <=> parses
            /\ parses =>
                  /\ Rounded4(ret[1].ENTRY_PRICE, 10 * p.v)
                  /\ Rounded4(ret[1].STOP_LOSS, 9 * p.v)
                  /\ Rounded4(ret[1].TAKE_PROFIT, 20 * p.v)
            /\ (parses /\ p.v = HundredUnits) =>
                  /\ ret[1].ENTRY_PRICE = 1000000 /\ ret[1].STOP_LOSS = 900000
                  /\ ret[1].TAKE_PROFIT = 2000000

\* C17 witness: the string "0.12345" gives 0.1235 or 0.1234, 0.1111, 0.2469
C17_Witness ==
    /\ call = [fn |-> "orderList", arg |-> NumStr(12345)] /\ ret # <<>>
    /\ ret[1].plan /\ ret[1].STOP_LOSS = 1111 /\ ret[1].TAKE_PROFIT = 2469
    /\ ret[1].ENTRY_PRICE \in {1234, 1235}

---------------------------------------------------------------------------
(* Claims about the verdict extractor (SpecExtract).                       *)

ExtractReturned == call.fn = "extract_json_from_text" /\ ret # <<>>

\* C18: whenever no verdict is obtained (no span matched, or the span that
\* matched does not parse after normalization) the text returned is the
\* text given, unmodified.
C18_NoVerdictKeepsText ==
    (ExtractReturned /\ ret[1].obj = 0) => ret[1].text = call.arg

\* C19: the verdict is the object of the first strategy that parses: the
\* leftmost fenced block if its body parses, else the first balanced brace
\* span if it parses, else none.
C19_FirstParsingStrategyWins ==
    ExtractReturned =>
        LET m == FenceSearch(call.arg)
            se == _find_balanced_braces_block(call.arg)
            fenced == IF m = 0 THEN 0 ELSE ParseBlock(call.arg[m])
            braced == IF se = 0 THEN 0 ELSE ParseBlock(call.arg[se])
        IN  ret[1].obj = IF fenced # 0 THEN fenced ELSE braced

---------------------------------------------------------------------------
(* Claims about ask_with_sources (SpecAsk).                                *)

\* C8: no failure of a single source aborts the call: when the call has
\* ended with a prompt available, every source of the list has been
\* processed and, if any content was collected, the completion request has
\* been made with it.
C8_SourceFailureNeverAborts ==
    (askPc \in {"returned", "raised"} /\ askEnv.PROMPT)
        => /\ idx = Len(sources)
           /\ content_items # <<>> => request = content_items

\* C9: when the call has returned or raised, no temporary file it created
\* is left on disk.
C9_TempFilesDeleted ==
    askPc \in {"returned", "raised"} => tmpFiles = {}

\* C20: a call without a system prompt ends with the configuration error
\* before any source is fetched, a call whose content list is empty (no
\* question, no usable source) ends with the content error, and in both
\* cases no completion request has been made.
C20_GuardsBeforeRequest ==
    askPc \in {"returned", "raised"} =>
        /\ ~askEnv.PROMPT =>
              (aborted = "config" /\ idx = 0 /\ tmpFiles = {} /\ request = <<>>)
        /\ (askEnv.PROMPT /\ content_items = <<>>) =>
              (aborted = "content" /\ request = <<>>)

\* C21: the content list is the question item (if a question is set) first,
\* then the items of the sources in list order, at most one per source and
\* each a file reference or a text item; no source is fetched by GET more
\* than once; the completion request carries exactly this list.
C21_ContentListOrdered ==
    /\ \A k \in DOMAIN content_items :
          /\ content_items[k].type \in {"input_file", "input_text"}
          /\ content_items[k].src \in 0..idx
          /\ content_items[k].src = 0 <=> (k = 1 /\ askEnv.QUESTION)
          /\ \A j \in 1..(k - 1) : content_items[j].src < content_items[k].src
    /\ (askPc = "loop" /\ askEnv.QUESTION) => content_items[1].src = 0
    /\ \A i \in DOMAIN fetched : fetched[i] <= 1
    /\ request # <<>> => request = content_items

\* a request made after a URL of no telling suffix was fetched without
\* giving an item and a later source gave one
C21_Witness ==
    /\ askPc = "returned" /\ askEnv.QUESTION /\ Len(request) >= 2
    /\ \E i \in DOMAIN sources :
          /\ sources[i].url /\ sources[i].suffix = "other" /\ fetched[i] = 1
          /\ \A k \in DOMAIN request : request[k].src # i
          /\ \E k \in DOMAIN request : request[k].src > i

---------------------------------------------------------------------------
(* Claims about the entry of ask_with_sources (SpecEntry).                 *)

\* C22: the call works with the system prompt and the question passed by
\* its caller when they are passed, and with the PROMPT / QUESTION values
\* of the environment only for an argument that is not passed.
C22_ArgumentsBeforeEnvironment ==
    (call.fn = "ask_with_sources" /\ ret # <<>>) =>
        LET a == call.arg
            prompt == IF a.system_prompt # None THEN a.system_prompt ELSE a.PROMPT
            q == IF a.question # None THEN a.question ELSE a.QUESTION
        IN  IF prompt = None THEN ret[1].raised
            ELSE /\ ~ret[1].raised
                 /\ ret[1].instructions = prompt
                 /\ ret[1].question = q

---------------------------------------------------------------------------
(* Claims about the process and its poll thread (SpecRun, SpecRunFair).    *)

\* C23: a poll loop that raises is followed by the retry delay and a new
\* start, whatever the number of failures so far; the loop is left only
\* when polling ends gracefully; and after a failure polling eventually
\* runs again.
C23_PollRestartsForever ==
    /\ [][/\ pollFailures' > pollFailures => pollPc' = "sleeping"
          /\ pollPc = "sleeping" => pollPc' \in {"sleeping", "starting"}
          /\ (pollPc' = "stopped" /\ pollPc # "stopped") =>
                (pollPc = "polling" /\ pollFailures' = pollFailures)]_vars
    /\ (pollPc = "sleeping") ~> (pollPc = "polling")

\* polling runs after as many failures as the bound allows
C23_Witness ==
    pollPc = "polling" /\ pollFailures = MaxPollFailures

\* C24: with the token, the source channel id or the destination id
\* missing, startup is aborted: no messenger, no listener, no poll loop, no
\* post handled, and no retry of the startup.
C24_MissingConfigAborts ==
    MissingConfig =>
        /\ ~messenger /\ ~listener /\ pollPc = "off" /\ handled = 0
        /\ startFailures = 0
        /\ runPc \in {"import", "run", "amain", "exited", "crashed"}

\* amain has returned for a missing value and run() has left its loop
C24_Witness ==
    MissingConfig /\ runPc = "exited"

---------------------------------------------------------------------------
(* Claims about the brace scanners and their parsers (SpecChars).          *)

\* the span of txt that starts at its first "{" and ends at the "}" that
\* matches it, NoSpan if there is none
FirstObject(txt) ==
    LET opens == {j \in DOMAIN txt : txt[j] = "{"}
    IN  IF opens = {} THEN NoSpan
        ELSE LET a == CHOOSE j \in opens : \A o \in opens : j <= o
                 ks == {k \in a..Len(txt) :
                          /\ DepthFrom(txt, a, k) = 0
                          /\ \A j \in a..(k - 1) : DepthFrom(txt, a, j) > 0}
             IN  IF ks = {} THEN NoSpan ELSE [s |-> a, e |-> CHOOSE k \in ks : TRUE]

\* C26: the block the inline extractor matches runs from the first opening
\* brace of the text to the closing brace that matches it, nested objects
\* included.
C26_InlineSpanBalanced ==
    (call.fn = "extract_inline_pyjson" /\ ret # <<>>
        /\ FirstObject(call.arg) # NoSpan) =>
        ret[1].raw = <<SubSeq(call.arg, FirstObject(call.arg).s, FirstObject(call.arg).e)>>

\* C27: for the inline block and for the verdict block alike, a block that
\* is valid as it stands is extracted as the object the strict parse gives.
C27_StrictParseFirst ==
    (call.fn \in {"extract_inline_pyjson", "extract_json_from_text"}
        /\ ret # <<>> /\ ret[1].raw # <<>>) =>
        (json_loads(ret[1].raw[1]) # <<>> => ret[1].obj = json_loads(ret[1].raw[1]))

\* C28: the scanner returns a balanced span whenever the text holds one,
\* and not-found only for a text that holds none.
C28_FindsSomeBalancedSpan ==
    (call.fn = "_find_balanced_braces_block" /\ ret # <<>>) =>
        LET txt == call.arg
            balanced(a, k) ==
                /\ a < k /\ txt[a] = "{" /\ DepthFrom(txt, a, k) = 0
                /\ \A j \in a..(k - 1) : DepthFrom(txt, a, j) > 0
        IN  IF ret[1] = NoSpan
              THEN ~\E a \in DOMAIN txt, k \in DOMAIN txt : balanced(a, k)
              ELSE balanced(ret[1].s, ret[1].e)

---------------------------------------------------------------------------
(* Claims about the cleaning of a post's text (SpecClean).                 *)

\* C25: question_text is the text of the post with, in this order, every
\* URL, every display text, the inline block and the trailing matrix taken
\* out, each step leaving the text as it was when it found nothing; an
\* inline block that was not extracted stays in the text.
C25_RemovalsInOrder ==
    (call.fn = "on_channel_post" /\ ret # <<>>) =>
        LET noUrls == RemoveAll(RemoveAll(call.arg, "u"), "d")
            m == _PYDICT_BLOCK_RE_search(noUrls)
            noInline == IF ret[1].inline_json # <<>> THEN CutOut(noUrls, m) ELSE noUrls
        IN  /\ ret[1].question_text = SplitTrailingRows(noInline).body
            /\ \A k \in DOMAIN ret[1].question_text :
                  ret[1].question_text[k] \notin {"u", "d"}
            /\ TrailingRowCount(ret[1].question_text) < 2

---------------------------------------------------------------------------
(* Claims about posts without extra links and about the order of the two   *)
(* sends (SpecStages, Spec).                                               *)

\* C29: for a post whose only URL is the primary link ask_with_sources is
\* never called and no completion request is made; the error text goes to
\* the primary destination and nothing to the secondary one.  For a post
\* without URL there is no call and no message at all.
C29_NoExtraLinksNoAiCall ==
    /\ (post # NoPost /\ post.nUrls = 1) =>
          /\ askPc = "off" /\ request = <<>> /\ ai_json = NoVerdict
          /\ pc \in {"scheduled", "primary", "done"}
          /\ secondaryOut = <<>>
          /\ pc = "done" => (Len(primaryOut) = 1 /\ primaryOut[1].text.kind = "error")
    /\ (post # NoPost /\ post.nUrls = 0) =>
          /\ askPc = "off" /\ request = <<>>
          /\ pc = "done" /\ primaryOut = <<>> /\ secondaryOut = <<>>

\* the error message of a post with one URL has been sent
C29_Witness ==
    /\ post # NoPost /\ post.nUrls = 1 /\ pc = "done"
    /\ Len(primaryOut) = 1 /\ primaryOut[1].text.kind = "error"

=============================================================================
